---- MODULE Spec2Model ----
(***************************************************************************)
(* Model of PCDLoader.parse (src/PCDLoader.js): the LZF decompressor, the  *)
(* header scan, and the three body decoders with the geometry assembly.    *)
(***************************************************************************)
EXTENDS Integers, Sequences, FiniteSets, TLC

(* ------------------------------------------------------------------ *)
(* Bounds of the model                                                  *)
(* ------------------------------------------------------------------ *)
MaxIn == 5
MaxOut == 10
MaxB == 7
MaxPieces == 5
MaxFields == 3
MaxPoints == 2
MaxLines == 3

(* JS `undefined` as read from a typed array past its end *)
Undef == 0 - 1

(* the byte values the compressed streams are drawn from: literal controls
   (0, 1), data and low distance bytes (0, 1), back-reference controls with
   len 1 (32), with a high distance bit (33) and with the length escape (224) *)
LzfBytes == {0, 1, 32, 33, 224}

(* the byte values of original (uncompressed) data *)
DataBytes == {0, 1}

SeqsUpTo(S, n) == UNION {[1..k -> S] : k \in 0..n}

VARIABLES
  inData, outLength, outData, inPtr, outPtr, ctrl, len, ref, pc,
  oobRead, oobWrite, badRef, lastOp, cpP, cpD, cpL, cpPre,
  orig, cin, cpos

lzfVars == <<inData, outLength, outData, inPtr, outPtr, ctrl, len, ref, pc,
             oobRead, oobWrite, badRef, lastOp, cpP, cpD, cpL, cpPre>>
rtVars == <<orig, cin, cpos>>

VARIABLES buf, text, sk, result1, headerLen, hpc
scanVars == <<buf, text, sk, result1, headerLen, hpc>>

VARIABLES file, H, pi, arr, reads, ppc, geom
parseVars == <<file, H, pi, arr, reads, ppc, geom>>

vars == <<lzfVars, rtVars, scanVars, parseVars>>

(* the variables of the parts of parse that a run does not exercise *)
ScanIdle ==
  /\ buf = <<>> /\ text = <<>> /\ sk = 0 /\ result1 = 0 /\ headerLen = 0 /\ hpc = "idle"
ParseIdle ==
  /\ file = <<>> /\ H = <<>> /\ pi = 0 /\ arr = <<>> /\ reads = {} /\ ppc = "idle" /\ geom = <<>>

(* ------------------------------------------------------------------ *)
(* decompressLZF                                                        *)
(* ------------------------------------------------------------------ *)
inLength == Len(inData)

(* inData[i] of a Uint8Array: undefined at or past the end *)
InAt(i) == IF i >= 0 /\ i < Len(inData) THEN inData[i + 1] ELSE Undef

(* outData[i] of a Uint8Array of length outLength *)
OutAt(out, i) == IF i >= 0 /\ i < Len(out) THEN out[i + 1] ELSE Undef

(* JS ToInt32/ToUint8 of a value stored in or shifted from a byte: undefined becomes 0 *)
ToInt(v) == IF v = Undef THEN 0 ELSE v

(* outData[i] = v on a Uint8Array: a store past the end is dropped *)
OutPut(out, i, v) == IF i >= 0 /\ i < Len(out) THEN [out EXCEPT ![i + 1] = ToInt(v)] ELSE out

(* the source byte of one back-reference copy step, as a block copy of the
   bytes that existed before the copy began would fetch it *)
CopyByteBlock(out, r) == OutAt(cpPre, r)

(* outData[ref]: the source byte of one back-reference copy step, read from
   the buffer as it is now, bytes written by this copy included *)
CopyByte(out, r) == OutAt(out, r)

(* new Uint8Array(outLength); inPtr = 0; outPtr = 0 *)
LzfStart(in, n) ==
  /\ inData = in
  /\ outLength = n
  /\ outData = [k \in 1..n |-> 0]
  /\ inPtr = 0
  /\ outPtr = 0
  /\ ctrl = 0
  /\ len = 0
  /\ ref = 0
  /\ oobRead = FALSE
  /\ oobWrite = FALSE
  /\ badRef = FALSE
  /\ lastOp = "none"
  /\ cpP = 0
  /\ cpD = 0
  /\ cpL = 0
  /\ cpPre = <<>>

(* ctrl = inData[inPtr++]; if (ctrl < (1 << 5)) { ctrl++ ... } else { len = ctrl >> 5; ref = ... } *)
ReadCtrl ==
  /\ pc = "top"
  /\ LET c == InAt(inPtr) IN
       /\ oobRead' = (oobRead \/ inPtr >= inLength)
       /\ inPtr' = inPtr + 1
       /\ IF c # Undef /\ c < 32
            THEN /\ ctrl' = c + 1
                 /\ pc' = "lit"
                 /\ UNCHANGED <<len, ref>>
            ELSE /\ ctrl' = c
                 /\ len' = ToInt(c) \div 32
                 /\ ref' = outPtr - ((ToInt(c) % 32) * 256) - 1
                 /\ pc' = "ref"
  /\ UNCHANGED <<inData, outLength, outData, outPtr, oobWrite, badRef, lastOp,
                 cpP, cpD, cpL, cpPre, rtVars, scanVars, parseVars>>

(* the two checks before a literal run is copied *)
LitCheck ==
  /\ pc = "lit"
  /\ IF outPtr + ctrl > outLength
       THEN pc' = "error"
       ELSE IF inPtr + ctrl > inLength
              THEN pc' = "error"
              ELSE pc' = "litcopy"
  /\ UNCHANGED <<inData, outLength, outData, inPtr, outPtr, ctrl, len, ref,
                 oobRead, oobWrite, badRef, lastOp, cpP, cpD, cpL, cpPre, rtVars, scanVars, parseVars>>

(* do { outData[outPtr++] = inData[inPtr++]; } while (--ctrl); one iteration *)
LitCopy ==
  /\ pc = "litcopy"
  /\ oobRead' = (oobRead \/ inPtr >= inLength)
  /\ oobWrite' = (oobWrite \/ outPtr >= outLength)
  /\ outData' = OutPut(outData, outPtr, InAt(inPtr))
  /\ outPtr' = outPtr + 1
  /\ inPtr' = inPtr + 1
  /\ ctrl' = ctrl - 1
  /\ pc' = IF ctrl - 1 # 0 THEN "litcopy" ELSE "loop"
  /\ lastOp' = "lit"
  /\ UNCHANGED <<inData, outLength, len, ref, badRef, cpP, cpD, cpL, cpPre, rtVars, scanVars, parseVars>>

(* the back-reference header: length escape, low distance byte, and the checks *)
RefHeader ==
  /\ pc = "ref"
  /\ IF inPtr >= inLength
       THEN /\ pc' = "error"
            /\ UNCHANGED <<inPtr, len, ref, oobRead, cpP, cpD, cpL, cpPre>>
       ELSE LET ext == (len = 7)
                len1 == IF ext THEN len + ToInt(InAt(inPtr)) ELSE len
                inPtr1 == IF ext THEN inPtr + 1 ELSE inPtr
            IN IF ext /\ inPtr1 >= inLength
                 THEN /\ pc' = "error"
                      /\ len' = len1
                      /\ inPtr' = inPtr1
                      /\ UNCHANGED <<ref, oobRead, cpP, cpD, cpL, cpPre>>
                 ELSE LET ref1 == ref - ToInt(InAt(inPtr1)) IN
                      /\ oobRead' = (oobRead \/ inPtr1 >= inLength)
                      /\ len' = len1
                      /\ inPtr' = inPtr1 + 1
                      /\ ref' = ref1
                      /\ IF outPtr + len1 + 2 > outLength
                           THEN pc' = "error"
                           ELSE IF ref1 < 0
                                  THEN pc' = "error"
                                  ELSE IF ref1 >= outPtr
                                         THEN pc' = "error"
                                         ELSE pc' = "refcopy"
                      /\ cpP' = outPtr
                      /\ cpD' = outPtr - ref1
                      /\ cpL' = len1 + 2
                      /\ cpPre' = outData
  /\ UNCHANGED <<inData, outLength, outData, outPtr, ctrl, oobWrite, badRef, lastOp, rtVars, scanVars, parseVars>>

(* do { outData[outPtr++] = outData[ref++]; } while (--len + 2); one iteration *)
RefCopy ==
  /\ pc = "refcopy"
  /\ badRef' = (badRef \/ ref < 0 \/ ref >= outPtr)
  /\ oobWrite' = (oobWrite \/ outPtr >= outLength)
  /\ outData' = OutPut(outData, outPtr, CopyByte(outData, ref))
  /\ outPtr' = outPtr + 1
  /\ ref' = ref + 1
  /\ len' = len - 1
  /\ pc' = IF (len - 1) + 2 # 0 THEN "refcopy" ELSE "loop"
  /\ lastOp' = "ref"
  /\ UNCHANGED <<inData, outLength, inPtr, ctrl, oobRead, cpP, cpD, cpL, cpPre, rtVars, scanVars, parseVars>>

(* } while (inPtr < inLength); return outData; *)
LoopTest ==
  /\ pc = "loop"
  /\ pc' = IF inPtr < inLength THEN "top" ELSE "done"
  /\ UNCHANGED <<inData, outLength, outData, inPtr, outPtr, ctrl, len, ref,
                 oobRead, oobWrite, badRef, lastOp, cpP, cpD, cpL, cpPre, rtVars, scanVars, parseVars>>

decompressLZF == ReadCtrl \/ LitCheck \/ LitCopy \/ RefHeader \/ RefCopy \/ LoopTest

(* decompressLZF called on an arbitrary stream and an arbitrary declared length *)
InitLZF ==
  /\ \E in \in SeqsUpTo(LzfBytes, MaxIn), n \in 0..MaxOut : LzfStart(in, n)
  /\ pc = "top"
  /\ orig = <<>>
  /\ cin = <<>>
  /\ cpos = 0
  /\ ScanIdle
  /\ ParseIdle

NextLZF == decompressLZF

SpecLZF == InitLZF /\ [][NextLZF]_vars

(* ------------------------------------------------------------------ *)
(* A reference LZF compressor, and the round trip through decompressLZF *)
(* ------------------------------------------------------------------ *)
Min(a, b) == IF a < b THEN a ELSE b

(* a literal run of n bytes: control byte n - 1 (< 32), then the n bytes *)
EncLiteral(B, p, n) == <<n - 1>> \o SubSeq(B, p + 1, p + n)

(* a back-reference of length L = l + 2 and distance d: control byte
   (min(l,7) << 5) | ((d-1) >> 8), the length escape l - 7 when l >= 7,
   then the low byte (d-1) & 0xff *)
EncBackref(d, L) ==
  LET l == L - 2
      hi == (d - 1) \div 256
      lo == (d - 1) % 256
  IN IF l < 7 THEN <<l * 32 + hi, lo>>
              ELSE <<7 * 32 + hi, l - 7, lo>>

(* the L bytes of B from position p on repeat the bytes d positions back *)
Matches(B, p, d, L) == \A k \in 0..(L - 1) : B[p + k + 1] = B[p + k - d + 1]

EmitLiteral ==
  /\ pc = "compress"
  /\ cpos < Len(orig)
  /\ \E n \in 1..Min(32, Len(orig) - cpos) :
       /\ cin' = cin \o EncLiteral(orig, cpos, n)
       /\ cpos' = cpos + n
  /\ UNCHANGED <<lzfVars, orig, scanVars, parseVars>>

EmitBackref ==
  /\ pc = "compress"
  /\ \E d \in 1..Min(cpos, 8192), L \in 3..Min(264, Len(orig) - cpos) :
       /\ Matches(orig, cpos, d, L)
       /\ cin' = cin \o EncBackref(d, L)
       /\ cpos' = cpos + L
  /\ UNCHANGED <<lzfVars, orig, scanVars, parseVars>>

(* decompressLZF(compress(B), |B|) is entered *)
CallDecompress ==
  /\ pc = "compress"
  /\ cpos = Len(orig)
  /\ inData' = cin
  /\ outLength' = Len(orig)
  /\ outData' = [k \in 1..Len(orig) |-> 0]
  /\ pc' = "top"
  /\ UNCHANGED <<inPtr, outPtr, ctrl, len, ref, oobRead, oobWrite, badRef,
                 lastOp, cpP, cpD, cpL, cpPre, rtVars, scanVars, parseVars>>

InitRT ==
  /\ LzfStart(<<>>, 0)
  /\ pc = "compress"
  /\ orig \in SeqsUpTo(DataBytes, MaxB)
  /\ cin = <<>>
  /\ cpos = 0
  /\ ScanIdle
  /\ ParseIdle

NextRT == EmitLiteral \/ EmitBackref \/ CallDecompress \/ decompressLZF

SpecRT == InitRT /\ [][NextRT]_vars

(* ------------------------------------------------------------------ *)
(* parse: TextDecoder and the DATA line scan of parseHeader             *)
(* ------------------------------------------------------------------ *)

(* the characters \s matches, among those the buffers are made of *)
Space == {9, 10, 11, 12, 13, 32, 160}

(* the characters [\r\n] matches *)
LineBreak == {10, 13}

(* the pieces the input buffers are made of: "\n", "\r", " ", "DATA x",
   "data x", a line "x\n", and the two-byte UTF-8 sequence of U+00E9 *)
ScanPieces == {<<10>>, <<13>>, <<32>>, <<68, 65, 84, 65, 32, 120>>,
               <<100, 97, 116, 97, 32, 120>>, <<120, 10>>, <<195, 169>>}

RECURSIVE Flatten(_)
Flatten(ps) == IF ps = <<>> THEN <<>> ELSE Head(ps) \o Flatten(Tail(ps))

(* new TextDecoder().decode(data): UTF-8, one code unit per ASCII byte and per
   well-formed two-byte sequence, U+FFFD for a byte that starts no sequence *)
RECURSIVE Utf8Decode(_)
Utf8Decode(b) ==
  IF b = <<>> THEN <<>>
  ELSE IF b[1] < 128 THEN <<b[1]>> \o Utf8Decode(Tail(b))
  ELSE IF b[1] \in 194..223 /\ Len(b) >= 2 /\ b[2] \in 128..191
         THEN <<((b[1] % 32) * 64) + (b[2] % 64)>> \o Utf8Decode(Tail(Tail(b)))
  ELSE <<65533>> \o Utf8Decode(Tail(b))

(* t[k], 0-based; 0 - 1 past the end *)
CharAt(t, k) == IF k >= 0 /\ k < Len(t) THEN t[k + 1] ELSE 0 - 1

(* the length of the maximal run of non-space characters of t from k on *)
RECURSIVE NonSpaceRun(_, _)
NonSpaceRun(t, k) ==
  IF k >= Len(t) \/ CharAt(t, k) \in Space THEN 0 ELSE 1 + NonSpaceRun(t, k + 1)

\* the length of the match of the pattern /[\r\n]DATA\s(\S*)\s/i starting
\* exactly at index k of t, or 0 when it does not match there
MatchLenAt(t, k) ==
  IF /\ CharAt(t, k) \in LineBreak
     /\ CharAt(t, k + 1) \in {68, 100}
     /\ CharAt(t, k + 2) \in {65, 97}
     /\ CharAt(t, k + 3) \in {84, 116}
     /\ CharAt(t, k + 4) \in {65, 97}
     /\ CharAt(t, k + 5) \in Space
     /\ CharAt(t, k + 6 + NonSpaceRun(t, k + 6)) \in Space
  THEN 7 + NonSpaceRun(t, k + 6)
  ELSE 0

(* data.slice(start): a negative start counts from the end *)
JsSlice(t, start) ==
  LET s0 == IF start < 0 THEN (IF Len(t) + start < 0 THEN 0 ELSE Len(t) + start)
                         ELSE (IF start > Len(t) THEN Len(t) ELSE start)
  IN SubSeq(t, s0 + 1, Len(t))

(* regex.exec(t): the length of its first match, result2[0].length, or 0 for null *)
ExecLen(t) ==
  LET hits == {k \in 0..(Len(t) - 1) : MatchLenAt(t, k) > 0}
  IN IF hits = {} THEN 0
     ELSE MatchLenAt(t, CHOOSE k \in hits : \A j \in hits : k <= j)

(* const textData = new TextDecoder().decode(data) *)
DecodeText ==
  /\ hpc = "decode"
  /\ text' = Utf8Decode(buf)
  /\ hpc' = "search"
  /\ UNCHANGED <<buf, sk, result1, headerLen, lzfVars, rtVars, parseVars>>

\* data.search(/[\r\n]DATA\s(\S*)\s/i): one position of the scan
SearchStep ==
  /\ hpc = "search"
  /\ IF sk >= Len(text)
       THEN /\ result1' = 0 - 1
            /\ hpc' = "exec"
            /\ UNCHANGED sk
       ELSE IF MatchLenAt(text, sk) > 0
              THEN /\ result1' = sk
                   /\ hpc' = "exec"
                   /\ UNCHANGED sk
              ELSE /\ sk' = sk + 1
                   /\ UNCHANGED <<result1, hpc>>
  /\ UNCHANGED <<buf, text, headerLen, lzfVars, rtVars, parseVars>>

(* result2 = regex.exec(data.slice(result1 - 1)); headerLen = result2[0].length + result1;
   a null result2 makes result2[1] throw *)
ExecData ==
  /\ hpc = "exec"
  /\ LET m == ExecLen(JsSlice(text, result1 - 1)) IN
       IF m = 0
         THEN /\ hpc' = "error"
              /\ UNCHANGED headerLen
         ELSE /\ headerLen' = m + result1
              /\ hpc' = "done"
  /\ UNCHANGED <<buf, text, sk, result1, lzfVars, rtVars, parseVars>>

InitScan ==
  /\ buf \in {Flatten(ps) : ps \in SeqsUpTo(ScanPieces, MaxPieces)}
  /\ text = <<>>
  /\ sk = 0
  /\ result1 = 0
  /\ headerLen = 0
  /\ hpc = "decode"
  /\ LzfStart(<<>>, 0) /\ pc = "idle"
  /\ orig = <<>> /\ cin = <<>> /\ cpos = 0
  /\ ParseIdle

NextScan == DecodeText \/ SearchStep \/ ExecData

SpecScan == InitScan /\ [][NextScan]_vars

(* ------------------------------------------------------------------ *)
(* Property of the DATA line scan                                       *)
(* ------------------------------------------------------------------ *)

(* b[k], 0-based *)
ByteAt(b, k) == IF k >= 0 /\ k < Len(b) THEN b[k + 1] ELSE 0 - 1

RECURSIVE TokenRun(_, _)
TokenRun(b, k) ==
  IF k >= Len(b) \/ ByteAt(b, k) \in Space THEN 0 ELSE 1 + TokenRun(b, k + 1)

(* a line `DATA <token>` starts at byte s of b (at the start of the buffer or
   right after a newline) and is ended by "\n" or "\r\n": the offset of the
   byte after that newline, or 0 when no such line starts at s *)
DataLineEndAt(b, s) ==
  LET n == TokenRun(b, s + 5)
      e == s + 5 + n
  IN IF /\ (s = 0 \/ ByteAt(b, s - 1) = 10)
        /\ ByteAt(b, s) \in {68, 100}
        /\ ByteAt(b, s + 1) \in {65, 97}
        /\ ByteAt(b, s + 2) \in {84, 116}
        /\ ByteAt(b, s + 3) \in {65, 97}
        /\ ByteAt(b, s + 4) = 32
        /\ n >= 1
     THEN IF ByteAt(b, e) = 10 THEN e + 1
          ELSE IF ByteAt(b, e) = 13 /\ ByteAt(b, e + 1) = 10 THEN e + 2
          ELSE 0
     ELSE 0

DataLineStarts(b) == {s \in 0..(Len(b) - 1) : DataLineEndAt(b, s) > 0}

(* the byte offset right after the newline ending the first DATA line of b *)
DataLineEnd(b) ==
  DataLineEndAt(b, CHOOSE s \in DataLineStarts(b) : \A j \in DataLineStarts(b) : s <= j)

(* C7: for every buffer holding a line `DATA <token>`, parseHeader succeeds
   and headerLen is the byte offset right after the newline that ends the
   first such line, wherever the line sits, whatever the line terminator and
   whatever bytes precede it. *)
C7_HeaderLenIsByteOffset ==
  (hpc \in {"done", "error"} /\ DataLineStarts(buf) # {}) =>
     (hpc = "done" /\ headerLen = DataLineEnd(buf))

(* ------------------------------------------------------------------ *)
(* Properties of decompressLZF                                          *)
(* ------------------------------------------------------------------ *)

(* C1: whenever decompressLZF returns normally, the number of bytes written
   (outPtr) equals the declared outLength exactly. *)
C1_ReturnsExactLength == (pc = "done") => (outPtr = outLength)

(* C2: decompressLZF never reads inData at or past its end, never writes
   outData at or past outLength, and never copies from a reference
   position outside [0, outPtr). *)
C2_NoOutOfRangeAccess == ~oobRead /\ ~oobWrite /\ ~badRef

(* C3: decompressLZF(compress(B), |B|) returns, without error, a buffer equal
   to B, for every B including the empty one. *)
C3_RoundTrip == (pc \in {"done", "error"}) => (pc = "done" /\ outData = orig)

(* C4: a completed back-reference of distance d and length L = len + 2 has
   advanced outPtr by exactly L, has written out[p+k] = out[p-d+(k mod d)]
   for every k < L (the d-byte pattern repeated when d < L), and has left
   the bytes below p unchanged. *)
C4_BackrefPeriodicCopy ==
  (pc = "loop" /\ lastOp = "ref") =>
     /\ cpD >= 1 /\ cpD <= cpP
     /\ outPtr = cpP + cpL
     /\ \A k \in 0..(cpL - 1) :
          OutAt(outData, cpP + k) = OutAt(cpPre, cpP - cpD + (k % cpD))
     /\ \A j \in 0..(cpP - 1) : OutAt(outData, j) = OutAt(cpPre, j)

(* a self-overlapping back-reference (d < L) over a pattern of two different
   bytes has completed *)
C4_Witness ==
  /\ pc = "loop" /\ lastOp = "ref"
  /\ cpD = 2 /\ cpL >= 3
  /\ OutAt(cpPre, cpP - 1) # OutAt(cpPre, cpP - 2)

(* ------------------------------------------------------------------ *)
(* parse: the header fields, the three body decoders, the geometry      *)
(* ------------------------------------------------------------------ *)

(* JS NaN, as size[i] * count[i] yields it when an entry is undefined *)
NaN == 0 - 2

IsNum(v) == v # Undef /\ v # NaN

(* a + b and a * b on JS numbers: NaN when an operand is undefined or NaN *)
JsAdd(a, b) == IF IsNum(a) /\ IsNum(b) THEN a + b ELSE NaN
JsMul(a, b) == IF IsNum(a) /\ IsNum(b) THEN a * b ELSE NaN

(* s[i] of a JS array, 0-based: undefined outside it (s[-1] included) *)
At0(s, i) == IF IsNum(i) /\ i >= 0 /\ i < Len(s) THEN s[i + 1] ELSE Undef

(* the field names the decoders look up *)
RecNames == {"x", "y", "z", "normal_x", "normal_y", "normal_z", "rgb", "intensity", "label"}

(* the output attributes and the number of values each holds per point *)
Attrs == {"position", "normal", "color", "intensity", "label"}
PerPoint(a) == IF a \in {"position", "normal", "color"} THEN 3 ELSE 1

(* fields.indexOf(n): the first index, 0 - 1 when absent *)
IndexOf(fields, n) ==
  LET hits == {k \in 1..Len(fields) : fields[k] = n}
  IN IF hits = {} THEN 0 - 1 ELSE (CHOOSE k \in hits : \A j \in hits : k <= j) - 1

(* the index whose assignment offset[fields[i]] = ... is the last for name n *)
LastIndexOf(fields, n) ==
  LET hits == {k \in 1..Len(fields) : fields[k] = n}
  IN IF hits = {} THEN 0 - 1 ELSE (CHOOSE k \in hits : \A j \in hits : k >= j) - 1

(* sizeSum after the first k fields: sizeSum += size[i] * count[i] *)
RECURSIVE SizeSum(_, _, _)
SizeSum(size, count, k) ==
  IF k = 0 THEN 0
  ELSE JsAdd(SizeSum(size, count, k - 1), JsMul(At0(size, k - 1), At0(count, k - 1)))

(* PCDheader.count: the COUNT list, or one 1 per field *)
CountOf(f) == IF f.hasCount THEN f.count ELSE [k \in 1..Len(f.fields) |-> 1]

(* PCDheader.offset[n]: undefined for an undeclared name, the column index for
   ascii, the bytes of the preceding fields otherwise *)
OffsetOf(f, n) ==
  LET k == LastIndexOf(f.fields, n)
  IN IF k < 0 THEN Undef
     ELSE IF f.data = "ascii" THEN k
     ELSE SizeSum(f.size, CountOf(f), k)

(* PCDheader.points: POINTS, or WIDTH * HEIGHT *)
PointsOf(f) == IF f.hasPoints THEN f.points ELSE f.width * f.height

(* the loop test i <= PCDheader.points, run once too often *)
MorePointsInclusive(i, n) == IsNum(n) /\ i <= n

(* the loop test i < PCDheader.points *)
MorePoints(i, n) == IsNum(n) /\ i < n

(* the address of a field of point i as a row-major layout would give it *)
RowMajorAddr(n, off, sz, i) == JsAdd(JsMul(i, H.rowSize), off)

(* (PCDheader.points * offset.f) + PCDheader.size[fIndex] * i *)
ColumnAddr(n, off, sz, i) == JsAdd(JsMul(n, off), JsMul(sz, i))

(* the address of a field with the row start left out *)
RowAddrNoRow(row, off) == JsAdd(0, off)

(* row + offset.f *)
RowAddr(row, off) == JsAdd(row, off)

(* row after i iterations of row += PCDheader.rowSize, from 0 *)
RowOf(i, rowSize) == IF i = 0 THEN 0 ELSE JsMul(i, rowSize)

(* DataView.getX(v): ToIndex turns NaN and undefined into 0 *)
ToIndex(v) == IF IsNum(v) THEN v ELSE 0

Rd(n, a, w, i) == [f |-> n, i |-> i, at |-> ToIndex(a), w |-> w]

(* the reads one point makes, in order, given the address addr[n] of each field *)
PointReads(off, addr, i) ==
  (IF off["x"] # Undef
     THEN <<Rd("x", addr["x"], 4, i), Rd("y", addr["y"], 4, i), Rd("z", addr["z"], 4, i)>>
     ELSE <<>>)
  \o (IF off["rgb"] # Undef
        THEN <<Rd("rgb", JsAdd(addr["rgb"], 2), 1, i), Rd("rgb", JsAdd(addr["rgb"], 1), 1, i),
               Rd("rgb", JsAdd(addr["rgb"], 0), 1, i)>>
        ELSE <<>>)
  \o (IF off["normal_x"] # Undef
        THEN <<Rd("normal_x", addr["normal_x"], 4, i), Rd("normal_y", addr["normal_y"], 4, i),
               Rd("normal_z", addr["normal_z"], 4, i)>>
        ELSE <<>>)
  \o (IF off["intensity"] # Undef THEN <<Rd("intensity", addr["intensity"], 4, i)>> ELSE <<>>)
  \o (IF off["label"] # Undef THEN <<Rd("label", addr["label"], 4, i)>> ELSE <<>>)

(* a DataView read of w bytes at index at is inside a view of viewLen bytes;
   otherwise it throws a RangeError *)
InView(r, viewLen) == r.at >= 0 /\ r.at + r.w <= viewLen

(* the reads performed before the first one that throws *)
Performed(rs, viewLen) ==
  {rs[k] : k \in {j \in 1..Len(rs) : \A m \in 1..j : InView(rs[m], viewLen)}}

(* the arrays after one point (or one ascii line) has been pushed *)
Pushed(a, off) ==
  [a EXCEPT !.position = @ + (IF off["x"] # Undef THEN 3 ELSE 0),
            !.color = @ + (IF off["rgb"] # Undef THEN 3 ELSE 0),
            !.normal = @ + (IF off["normal_x"] # Undef THEN 3 ELSE 0),
            !.intensity = @ + (IF off["intensity"] # Undef THEN 1 ELSE 0),
            !.label = @ + (IF off["label"] # Undef THEN 1 ELSE 0)]

NoHeader == [points |-> 0, size |-> <<>>, count |-> <<>>,
             offset |-> [n \in RecNames |-> Undef], rowSize |-> 0]

NoArrays == [a \in Attrs |-> 0]

(* parseHeader from line 139 on: points, size, count, offset, rowSize. A null
   SIZE makes PCDheader.size[i] throw in the offset loop of a non-ascii file. *)
ParseHeaderFields ==
  /\ ppc = "header"
  /\ IF file.data # "ascii" /\ ~file.hasSize /\ Len(file.fields) > 0
       THEN /\ ppc' = "error"
            /\ UNCHANGED H
       ELSE /\ H' = [points |-> PointsOf(file),
                     size |-> file.size,
                     count |-> CountOf(file),
                     offset |-> [n \in RecNames |-> OffsetOf(file, n)],
                     rowSize |-> IF file.data = "ascii" THEN 0
                                 ELSE SizeSum(file.size, CountOf(file), Len(file.fields))]
            /\ ppc' = IF file.data = "ascii" THEN "ascii"
                      ELSE IF file.data = "binary_compressed" THEN "lzf"
                      ELSE "binary"
  /\ UNCHANGED <<file, pi, arr, reads, geom, lzfVars, rtVars, scanVars>>

(* one line of the ascii body *)
AsciiLine ==
  /\ ppc = "ascii"
  /\ IF pi >= Len(file.lines)
       THEN /\ ppc' = "assemble"
            /\ UNCHANGED <<pi, arr>>
       ELSE IF ~file.lines[pi + 1]
              THEN /\ pi' = pi + 1
                   /\ UNCHANGED <<ppc, arr>>
              ELSE IF H.offset["rgb"] # Undef /\ ~file.hasType
                     THEN /\ ppc' = "error"
                          /\ UNCHANGED <<pi, arr>>
                     ELSE /\ arr' = Pushed(arr, H.offset)
                          /\ pi' = pi + 1
                          /\ UNCHANGED ppc
  /\ UNCHANGED <<file, H, reads, geom, lzfVars, rtVars, scanVars>>

(* the two sizes are read and decompressLZF is called; it returns a buffer of
   decompressedSize bytes or throws *)
Decompress ==
  /\ ppc = "lzf"
  /\ ppc' = IF file.lzfOk THEN "compressed" ELSE "error"
  /\ UNCHANGED <<file, H, pi, arr, reads, geom, lzfVars, rtVars, scanVars>>

(* one point of the binary_compressed body *)
CompressedPoint ==
  /\ ppc = "compressed"
  /\ IF ~MorePoints(pi, H.points)
       THEN /\ ppc' = "assemble"
            /\ UNCHANGED <<pi, arr, reads>>
       ELSE LET addr == [n \in RecNames |->
                           ColumnAddr(H.points, H.offset[n],
                                      At0(H.size, IndexOf(file.fields, n)), pi)]
                rs == PointReads(H.offset, addr, pi)
            IN /\ reads' = Performed(rs, file.payloadLen)
               /\ IF \A k \in 1..Len(rs) : InView(rs[k], file.payloadLen)
                    THEN /\ arr' = Pushed(arr, H.offset)
                         /\ pi' = pi + 1
                         /\ UNCHANGED ppc
                    ELSE /\ ppc' = "error"
                         /\ UNCHANGED <<pi, arr>>
  /\ UNCHANGED <<file, H, geom, lzfVars, rtVars, scanVars>>

(* one point of the binary body *)
BinaryPoint ==
  /\ ppc = "binary"
  /\ IF ~MorePoints(pi, H.points)
       THEN /\ ppc' = "assemble"
            /\ UNCHANGED <<pi, arr, reads>>
       ELSE LET addr == [n \in RecNames |-> RowAddr(RowOf(pi, H.rowSize), H.offset[n])]
                rs == PointReads(H.offset, addr, pi)
            IN /\ reads' = Performed(rs, file.payloadLen)
               /\ IF \A k \in 1..Len(rs) : InView(rs[k], file.payloadLen)
                    THEN /\ arr' = Pushed(arr, H.offset)
                         /\ pi' = pi + 1
                         /\ UNCHANGED ppc
                    ELSE /\ ppc' = "error"
                         /\ UNCHANGED <<pi, arr>>
  /\ UNCHANGED <<file, H, geom, lzfVars, rtVars, scanVars>>

(* the geometry gets an attribute for every array that is not empty *)
Assemble ==
  /\ ppc = "assemble"
  /\ geom' = [a \in {b \in Attrs : arr[b] > 0} |-> arr[a]]
  /\ ppc' = "done"
  /\ UNCHANGED <<file, H, pi, arr, reads, lzfVars, rtVars, scanVars>>

ParseStart(f) ==
  /\ file = f
  /\ H = NoHeader
  /\ pi = 0
  /\ arr = NoArrays
  /\ reads = {}
  /\ ppc = "header"
  /\ geom = <<>>
  /\ LzfStart(<<>>, 0) /\ pc = "idle"
  /\ orig = <<>> /\ cin = <<>> /\ cpos = 0
  /\ ScanIdle

(* sequences over S of length at most n without a repeated name *)
Declared(S, n) ==
  {d \in SeqsUpTo(S, n) : \A i, j \in 1..Len(d) : i # j => d[i].name # d[j].name}

(* --- files with a well-formed schema, for the byte layout ---------- *)
LayoutNames == {"x", "y", "z", "rgb", "intensity"}
LayoutDecls == {[name |-> n, size |-> sc[1], count |-> sc[2]] :
                  n \in LayoutNames, sc \in {<<4, 1>>, <<2, 1>>, <<4, 2>>}}

RECURSIVE RowBytes(_)
RowBytes(d) == IF d = <<>> THEN 0 ELSE d[1].size * d[1].count + RowBytes(Tail(d))

LayoutFile(e, d, n) ==
  [data |-> e,
   fields |-> [k \in 1..Len(d) |-> d[k].name],
   hasSize |-> TRUE, size |-> [k \in 1..Len(d) |-> d[k].size],
   hasCount |-> TRUE, count |-> [k \in 1..Len(d) |-> d[k].count],
   hasPoints |-> TRUE, points |-> n, width |-> 1, height |-> 1,
   hasType |-> TRUE, payloadLen |-> n * RowBytes(d), lzfOk |-> TRUE, lines |-> <<>>]

InitLayout ==
  \E e \in {"binary", "binary_compressed"}, d \in Declared(LayoutDecls, MaxFields),
     n \in 0..MaxPoints : ParseStart(LayoutFile(e, d, n))

NextLayout == ParseHeaderFields \/ Decompress \/ CompressedPoint \/ BinaryPoint \/ Assemble

SpecLayout == InitLayout /\ [][NextLayout]_vars

(* --- files of every encoding, with and without a consistent schema - *)
OutNames == {"x", "y", "z", "normal_x", "rgb", "label"}

NameLists == {d \in SeqsUpTo(OutNames, MaxFields) : \A i, j \in 1..Len(d) : i # j => d[i] # d[j]}

(* a SIZE list of n entries, all 4 *)
Fours(n) == [k \in 1..n |-> 4]
Ones(n) == [k \in 1..n |-> 1]

(* SIZE: as long as FIELDS, missing, one entry short (a list that is present
   has an entry), one entry long *)
SizeLists(n) == {[has |-> TRUE, v |-> Fours(n)], [has |-> FALSE, v |-> <<>>],
                 [has |-> TRUE, v |-> Fours(IF n <= 1 THEN n ELSE n - 1)],
                 [has |-> TRUE, v |-> Fours(n + 1)]}

(* COUNT: as long as FIELDS, missing, one entry short *)
CountLists(n) == {[has |-> TRUE, v |-> Ones(n)], [has |-> FALSE, v |-> <<>>],
                  [has |-> TRUE, v |-> Ones(IF n <= 1 THEN n ELSE n - 1)]}

(* POINTS given, or left to WIDTH * HEIGHT *)
PointSpecs == {[has |-> TRUE, points |-> k, width |-> 1, height |-> 1] : k \in 0..MaxPoints}
              \cup {[has |-> FALSE, points |-> 0, width |-> MaxPoints, height |-> h] : h \in 1..2}

(* enough payload for every row of every file drawn here *)
FullPayload == 2 * MaxPoints * 4 * (MaxFields + 1)

OutFile(e, d, sz, ct, ps, ty, bytes, ok, ls) ==
  [data |-> e, fields |-> d,
   hasSize |-> sz.has, size |-> sz.v,
   hasCount |-> ct.has, count |-> ct.v,
   hasPoints |-> ps.has, points |-> ps.points, width |-> ps.width, height |-> ps.height,
   hasType |-> ty, payloadLen |-> bytes, lzfOk |-> ok, lines |-> ls]

InitOut ==
  \/ \E d \in NameLists, ps \in PointSpecs :
       \E sz \in SizeLists(Len(d)), ct \in CountLists(Len(d)) :
          ParseStart(OutFile("binary", d, sz, ct, ps, TRUE, FullPayload, TRUE, <<>>))
  \/ \E d \in NameLists, ps \in PointSpecs, ok \in BOOLEAN :
       \E sz \in SizeLists(Len(d)), ct \in CountLists(Len(d)) :
          ParseStart(OutFile("binary_compressed", d, sz, ct, ps, TRUE, FullPayload, ok, <<>>))
  \/ \E d \in NameLists, ps \in PointSpecs, ty \in BOOLEAN, ls \in SeqsUpTo(BOOLEAN, MaxLines) :
       ParseStart(OutFile("ascii", d, [has |-> TRUE, v |-> Fours(Len(d))],
                          [has |-> TRUE, v |-> Ones(Len(d))], ps, ty, 0, TRUE, ls))

NextOut == ParseHeaderFields \/ AsciiLine \/ Decompress \/ CompressedPoint \/ BinaryPoint \/ Assemble

SpecOut == InitOut /\ [][NextOut]_vars

(* ------------------------------------------------------------------ *)
(* Properties of the two binary layouts                                 *)
(* ------------------------------------------------------------------ *)
DeclaredNames(f) == {f.fields[k] : k \in 1..Len(f.fields)}

(* the position of the field named n in FIELDS *)
FieldPos(f, n) == CHOOSE k \in 1..Len(f.fields) : f.fields[k] = n

(* size[g] * count[g] summed over the first k fields *)
RECURSIVE BytesOfFirst(_, _)
BytesOfFirst(f, k) ==
  IF k = 0 THEN 0 ELSE BytesOfFirst(f, k - 1) + f.size[k] * f.count[k]

(* fieldOffset[n]: the bytes of the fields declared before n *)
FieldOffset(f, n) == BytesOfFirst(f, FieldPos(f, n) - 1)

(* rowStride: the bytes of all fields *)
RowStride(f) == BytesOfFirst(f, Len(f.fields))

FieldSize(f, n) == f.size[FieldPos(f, n)]
FieldBytes(f, n) == f.size[FieldPos(f, n)] * f.count[FieldPos(f, n)]

(* the bytes the decoders read of a field: three colour bytes, or four *)
ReadWidth(n) == IF n = "rgb" THEN 3 ELSE 4

(* the reads made for declared fields *)
DeclaredReads == {r \in reads : r.f \in DeclaredNames(file)}

(* C5: in the binary_compressed decoder the value of field f of point i is
   read starting at N * fieldOffset[f] + size[f] * i, and every byte read for
   it lies inside f's own column block
   [N * fieldOffset[f], N * (fieldOffset[f] + size[f] * count[f])). *)
C5_ReadsInsideOwnColumnBlock ==
  (file.data = "binary_compressed") =>
     \A r \in DeclaredReads :
        /\ r.at >= file.points * FieldOffset(file, r.f) + FieldSize(file, r.f) * r.i
        /\ r.at >= file.points * FieldOffset(file, r.f)
        /\ r.at + r.w <= file.points * (FieldOffset(file, r.f) + FieldBytes(file, r.f))

(* C5, amended: every byte read for field f of point i lies in
   [s, s + w) with s = N * fieldOffset[f] + size[f] * i and w = 4 (3 for rgb),
   and inside the decompressed buffer; it lies inside f's own column block
   whenever size[f] >= w. *)
C5_ReadsAtColumnAddress ==
  (file.data = "binary_compressed") =>
     \A r \in DeclaredReads :
        LET s == file.points * FieldOffset(file, r.f) + FieldSize(file, r.f) * r.i IN
        /\ r.at >= s
        /\ r.at + r.w <= s + ReadWidth(r.f)
        /\ r.at + r.w <= file.payloadLen
        /\ (FieldSize(file, r.f) >= ReadWidth(r.f)) =>
             /\ r.at >= file.points * FieldOffset(file, r.f)
             /\ r.at + r.w <= file.points * (FieldOffset(file, r.f) + FieldBytes(file, r.f))

(* the second point of a compressed cloud has been read from the block of a
   field that is not the first, and a narrow field has been read as well *)
C5_Witness ==
  /\ file.data = "binary_compressed"
  /\ \E r \in DeclaredReads :
       r.i = 1 /\ FieldOffset(file, r.f) > 0 /\ FieldSize(file, r.f) >= ReadWidth(r.f)
  /\ \E r \in DeclaredReads : FieldSize(file, r.f) < ReadWidth(r.f)

(* C6: in the binary decoder all payload bytes read for a declared field of
   point i lie inside point i's own row
   [i * rowStride, (i + 1) * rowStride) of the payload. *)
C6_ReadsInsideOwnRow ==
  (file.data = "binary") =>
     \A r \in DeclaredReads :
        /\ r.at >= r.i * RowStride(file)
        /\ r.at + r.w <= (r.i + 1) * RowStride(file)

(* C6, amended: every byte read for field f of point i lies in [s, s + w)
   with s = i * rowStride + fieldOffset[f] and w = 4 (3 for rgb), and inside
   the payload; it lies inside point i's row whenever
   size[f] * count[f] >= w. *)
C6_ReadsAtRowAddress ==
  (file.data = "binary") =>
     \A r \in DeclaredReads :
        LET s == r.i * RowStride(file) + FieldOffset(file, r.f) IN
        /\ r.at >= s
        /\ r.at + r.w <= s + ReadWidth(r.f)
        /\ r.at + r.w <= file.payloadLen
        /\ (FieldBytes(file, r.f) >= ReadWidth(r.f)) =>
             /\ r.at >= r.i * RowStride(file)
             /\ r.at + r.w <= (r.i + 1) * RowStride(file)

(* the second row of a binary cloud has been read at a field that is not the
   first of the row, and a narrow field has been read as well *)
C6_Witness ==
  /\ file.data = "binary"
  /\ \E r \in DeclaredReads :
       r.i = 1 /\ FieldOffset(file, r.f) > 0 /\ FieldBytes(file, r.f) >= ReadWidth(r.f)
  /\ \E r \in DeclaredReads : FieldBytes(file, r.f) < ReadWidth(r.f)

(* ------------------------------------------------------------------ *)
(* Properties of the output                                             *)
(* ------------------------------------------------------------------ *)

(* pointCount: the header's POINTS value, or WIDTH * HEIGHT without one *)
PointCount(f) == IF f.hasPoints THEN f.points ELSE f.width * f.height

(* the number of non-empty lines of the ascii body *)
NonEmptyLines(f) == Cardinality({k \in 1..Len(f.lines) : f.lines[k]})

(* the number of points the decoder of the file's encoding goes through *)
DecodedPoints(f) == IF f.data = "ascii" THEN NonEmptyLines(f) ELSE PointCount(f)

(* FIELDS, SIZE and COUNT do not all have the same length, or SIZE is missing *)
SchemaMismatch(f) ==
  \/ ~f.hasSize
  \/ Len(f.size) # Len(f.fields)
  \/ f.hasCount /\ Len(f.count) # Len(f.fields)

(* C8: when parse returns an output (of a cloud with at least one point), the
   position array is present if and only if x, y and z are all declared, and
   the normal array if and only if normal_x, normal_y and normal_z all are;
   a header declaring only some of the three yields no array for the group. *)
C8_ArrayIffAllThreeDeclared ==
  (ppc = "done" /\ DecodedPoints(file) >= 1) =>
     /\ ("position" \in DOMAIN geom) <=> ({"x", "y", "z"} \subseteq DeclaredNames(file))
     /\ ("normal" \in DOMAIN geom) <=>
          ({"normal_x", "normal_y", "normal_z"} \subseteq DeclaredNames(file))

(* C9: whenever parse returns an output, every array present has length
   3 * pointCount (position, normal, color) or pointCount (intensity, label),
   for all three encodings, whatever the number of ascii body lines. *)
C9_LengthsFromPointCount ==
  (ppc = "done") =>
     \A a \in DOMAIN geom : geom[a] = PerPoint(a) * PointCount(file)

(* C9, amended: whenever parse returns an output, every array present has
   length 3 * n (position, normal, color) or n (intensity, label), where n is
   pointCount for binary and binary_compressed and the number of non-empty
   body lines for ascii. *)
C9_LengthsFromDecodedPoints ==
  (ppc = "done") =>
     \A a \in DOMAIN geom : geom[a] = PerPoint(a) * DecodedPoints(file)

(* an ascii file whose body has another number of non-empty lines than the
   header's point count has been decoded into a position array *)
C9_Witness ==
  /\ ppc = "done"
  /\ file.data = "ascii"
  /\ "position" \in DOMAIN geom
  /\ NonEmptyLines(file) # PointCount(file)
  /\ PointCount(file) >= 1

(* C10: for a binary or binary_compressed header whose FIELDS, SIZE and COUNT
   lists do not all have the same length (or whose SIZE is missing), parse
   aborts with an error: it never returns a point cloud whose values were
   decoded with offsets derived from the mismatched lists. *)
C10_MismatchNeverDecoded ==
  (file.data \in {"binary", "binary_compressed"} /\ SchemaMismatch(file)) =>
     ~(ppc = "done" /\ DOMAIN geom # {})

====
